---------------------------- MODULE Spec2Model ----------------------------
(***************************************************************************)
(* TalentScout interview assistant: the interview stage machine of         *)
(* src/app.py and src/utils.py and the provider fallback chain of          *)
(* src/ai_bridge.py, src/openai_helper.py and src/anthropic_helper.py.     *)
(*                                                                         *)
(* A text (a Python str) is a sequence of tokens; a token is a TLA+        *)
(* string standing for a character or a run of characters that the code    *)
(* never looks inside.  The tokens the code does look at are "\n" (the     *)
(* split separator), the whitespace tokens removed by str.strip, the       *)
(* code-fence markers and the JSON braces.                                 *)
(***************************************************************************)
EXTENDS Integers, Sequences, FiniteSets, TLC

VARIABLES
    chat_history,            \* st.session_state.chat_history
    interview_stage,         \* st.session_state.interview_stage
    candidate_info,          \* st.session_state.candidate_info
    technical_questions,     \* st.session_state.technical_questions
    current_question_index,  \* st.session_state.current_question_index
    has_openai,              \* ai_bridge.has_openai, fixed at import
    has_anthropic,           \* ai_bridge.has_anthropic, fixed at import
    turn,                    \* what the last step did (observation only)
    evalLog,                 \* every evaluate_technical_response call so far
    genCalls,                \* generate_technical_questions calls so far
    conclusions,             \* number of steps that set interview_stage to 6
    inputs,                  \* user actions so far
    deviations,              \* turns in which a provider left its nominal reply
    waiting                  \* the provider whose call the running turn waits for

vars == <<chat_history, interview_stage, candidate_info, technical_questions,
          current_question_index, has_openai, has_anthropic, turn, evalLog,
          genCalls, conclusions, inputs, deviations, waiting>>

session == <<chat_history, interview_stage, candidate_info, technical_questions,
             current_question_index>>

-----------------------------------------------------------------------------
(* Bounds of the model.                                                    *)

\* user actions (text sends and form submissions) handled in one session
MaxInputs == 12
\* turns of one session in which a consulted provider raises or returns
\* anything but its nominal, well-formed reply
MaxDeviations == 1

\* the hard maximum of questions asked, utils.py line 143
MaxQuestions == 5

-----------------------------------------------------------------------------
(* Texts.                                                                  *)

NL == "\n"
Whitespace == {" ", "\t", NL}

Min(a, b) == IF a <= b THEN a ELSE b

\* str.split(sep): the pieces between the separators, empty pieces kept
RECURSIVE split(_, _)
split(s, sep) ==
    IF \A i \in 1..Len(s) : s[i] # sep
    THEN <<s>>
    ELSE LET i == CHOOSE j \in 1..Len(s) :
                      s[j] = sep /\ \A k \in 1..(j - 1) : s[k] # sep
         IN  <<SubSeq(s, 1, i - 1)>> \o split(SubSeq(s, i + 1, Len(s)), sep)

\* str.strip(): leading and trailing whitespace removed
RECURSIVE strip(_)
strip(s) ==
    IF s = <<>> THEN s
    ELSE IF s[1] \in Whitespace THEN strip(Tail(s))
    ELSE IF s[Len(s)] \in Whitespace THEN strip(SubSeq(s, 1, Len(s) - 1))
    ELSE s

\* str.replace(tok, ""): every occurrence of the token removed
remove(s, tok) == SelectSeq(s, LAMBDA t : t # tok)

\* ", ".join(items)
RECURSIVE join(_)
join(items) ==
    IF items = <<>> THEN <<>>
    ELSE IF Len(items) = 1 THEN <<items[1]>>
    ELSE <<items[1], ", ">> \o join(Tail(items))

\* the texts of ls with the token sep between them, used to write down the
\* texts a provider returns
RECURSIVE join_texts(_, _)
join_texts(ls, sep) ==
    IF ls = <<>> THEN <<>>
    ELSE IF Len(ls) = 1 THEN ls[1]
    ELSE ls[1] \o <<sep>> \o join_texts(Tail(ls), sep)

lines_text(ls) == join_texts(ls, NL)

-----------------------------------------------------------------------------
(* What a provider's API does on one call: it raises (text is str(e)) or   *)
(* it returns a text.                                                      *)

Raises(detail) == [raised |-> TRUE, text |-> <<detail>>]
Replies(text) == [raised |-> FALSE, text |-> text]

\* the result of a Python call: a returned value or a raised exception
Return(v) == [raised |-> FALSE, value |-> v]
Raise(e) == [raised |-> TRUE, value |-> e]

Providers == <<"openai", "anthropic">>

\* chat completions
ChatReply(p) == <<p \o " reply">>
ChatOutcomes(p) == {Raises(p \o " error"), Replies(ChatReply(p))}

\* question texts: five numbered lines is what the prompt asks for
Question(p, n) == <<ToString(n) \o ". ", p \o " question">>
QuestionLines(p, n) == [i \in 1..n |-> Question(p, i)]
FiveLines(p) == lines_text(QuestionLines(p, 5))
SixLines(p) == lines_text(QuestionLines(p, 6))
OneLine(p) == lines_text(QuestionLines(p, 1))
\* two questions with a blank line and a whitespace-only line around them
TwoLines(p) ==
    <<NL>> \o Question(p, 1) \o <<NL, " ", "\t", NL>> \o Question(p, 2) \o <<NL>>
BlankText == <<" ", NL, NL, "\t">>
EmptyText == <<>>
QuestionsOutcomes(p) ==
    {Raises(p \o " error")} \cup
    {Replies(t) : t \in {FiveLines(p), SixLines(p), OneLine(p), TwoLines(p),
                         BlankText, EmptyText}}

\* evaluation texts; the two tokens stand for the markdown code-fence markers
\* (three backquotes followed by json, and three backquotes)
FenceJson == "<fence>json"
Fence == "<fence>"
Fields == <<"assessment", "response", "follow_up">>
JsonObject(p, keys) ==
    <<"{">> \o
    join_texts([i \in 1..Len(keys) |-> <<keys[i], p \o " " \o keys[i]>>], ",") \o
    <<"}">>
PlainJson(p) == JsonObject(p, Fields)
FencedJson(p) == <<FenceJson, NL>> \o PlainJson(p) \o <<NL, Fence>>
MissingField(p) == JsonObject(p, <<"assessment", "response">>)
NotJson(p) == <<p \o " prose">>
EvaluateOutcomes(p) ==
    {Raises(p \o " error")} \cup
    {Replies(t) : t \in {PlainJson(p), FencedJson(p), MissingField(p), NotJson(p)}}

\* the reply of a provider that is up and follows its prompt
Nominal(op, p) ==
    CASE op = "chat" -> Replies(ChatReply(p))
      [] op = "questions" -> Replies(FiveLines(p))
      [] op = "evaluate" -> Replies(PlainJson(p))

-----------------------------------------------------------------------------
(* json.loads on the token texts: an object is "{" key value "," ... "}";  *)
(* every other text is a JSONDecodeError.                                  *)

Structural == {"{", "}", ",", FenceJson, Fence} \cup Whitespace

IsPair(piece) ==
    /\ Len(piece) = 2
    /\ piece[1] \notin Structural
    /\ piece[2] \notin Structural

AllPairs(pieces) == \A i \in 1..Len(pieces) : IsPair(pieces[i])

IsJsonObject(s) ==
    /\ Len(s) >= 2
    /\ s[1] = "{"
    /\ s[Len(s)] = "}"
    /\ (Len(s) = 2 \/ AllPairs(split(SubSeq(s, 2, Len(s) - 1), ",")))

\* the dict of the key-value pairs, a later pair replacing an earlier one with
\* the same key
ObjectOf(pairs) ==
    [k \in {pairs[i][1] : i \in 1..Len(pairs)} |->
        <<pairs[CHOOSE i \in 1..Len(pairs) :
                    /\ pairs[i][1] = k
                    /\ \A j \in (i + 1)..Len(pairs) : pairs[j][1] # k][2]>>]

ParseObject(s) ==
    IF Len(s) = 2 THEN ObjectOf(<<>>)
    ELSE ObjectOf(split(SubSeq(s, 2, Len(s) - 1), ","))

Decode(s) ==
    IF IsJsonObject(s) THEN Return(ParseObject(s)) ELSE Raise(<<"JSONDecodeError">>)

\* json.loads: surrounding whitespace is skipped, a JSONDecodeError is raised
\* for a text that is no JSON document
json_loads(text) == Decode(strip(text))

-----------------------------------------------------------------------------
(* The provider helpers.  Each takes, besides the arguments of the Python  *)
(* function, what the provider's API does on this call.                    *)

\* openai_helper.generate_chat_response
openai_generate_chat_response(history, stage, info, api) ==
    IF api.raised THEN Raise(api.text) ELSE Return(api.text)

\* anthropic_helper.generate_chat_response
anthropic_generate_chat_response(history, stage, info, api) ==
    IF api.raised THEN Raise(api.text) ELSE Return(api.text)

\* openai_helper.generate_technical_questions
openai_generate_technical_questions(tech_stack, api) ==
    IF api.raised THEN Raise(api.text) ELSE Return(api.text)

\* anthropic_helper.generate_technical_questions
anthropic_generate_technical_questions(tech_stack, api) ==
    IF api.raised THEN Raise(api.text) ELSE Return(api.text)

\* the object both helpers return when json.loads raises JSONDecodeError
parse_fallback ==
    [assessment |-> <<"Unable to properly evaluate the response">>,
     response |-> <<"Thank you for your answer. Let's move on to the next question.">>,
     follow_up |-> <<"Could you tell me more about your practical experience with this technology?">>]

\* the inner try without its except clause: the JSONDecodeError leaves the
\* helper
parsed_or_raised(parsed) ==
    IF parsed.raised THEN Raise(parsed.value) ELSE Return(parsed.value)

\* the inner try of both helpers: the parsed value, or parse_fallback when
\* json.loads raised
parsed_or_fallback(parsed) ==
    IF parsed.raised THEN Return(parse_fallback) ELSE Return(parsed.value)

\* openai_helper.evaluate_technical_response: the text is parsed as it is
openai_evaluate_technical_response(question, answer, tech_stack, api) ==
    IF api.raised THEN Raise(api.text)
    ELSE parsed_or_fallback(json_loads(api.text))

\* anthropic_helper.evaluate_technical_response: the fence markers are removed
\* and the text is stripped before it is parsed
anthropic_evaluate_technical_response(question, answer, tech_stack, api) ==
    IF api.raised THEN Raise(api.text)
    ELSE parsed_or_fallback(
             json_loads(strip(remove(remove(api.text, FenceJson), Fence))))

-----------------------------------------------------------------------------
(* The gateway, src/ai_bridge.py.  A gateway result carries, besides the   *)
(* value returned (or the exception raised) to the caller, the providers   *)
(* consulted in the order of their calls and what each helper call gave.   *)

Gave(res, consulted, outputs) ==
    [raised |-> res.raised, value |-> res.value,
     consulted |-> consulted, outputs |-> outputs]

chat_apology(detail) ==
    <<"I apologize, but I'm having trouble connecting to our AI systems. Please try again later or contact TalentScout directly. Error: ">>
    \o detail
chat_unavailable ==
    <<"I apologize, but I'm unable to connect to our AI systems. Please contact TalentScout directly for assistance.">>

questions_apology(detail) ==
    <<"I apologize, but I'm having trouble generating technical questions. Please provide more details about your experience with these technologies instead. Error: ">>
    \o detail
questions_unavailable ==
    <<"I apologize, but I'm unable to generate technical questions at this time. Please describe your experience with these technologies in your own words.">>

error_response ==
    [assessment |-> <<"Unable to evaluate response">>,
     response |-> <<"Thank you for your answer. I'm having some technical difficulties with my evaluation system.">>,
     follow_up |-> <<"Can you tell me more about your experience with this technology?">>]
unavailable_response ==
    [assessment |-> <<"Unable to evaluate response">>,
     response |-> <<"Thank you for your answer. I'm currently unable to access our evaluation system.">>,
     follow_up |-> <<"Can you tell me more about your experience with this technology?">>]

\* In the three chains below, first and second are what the OpenAI and the
\* Anthropic helper give when called; each is looked at only on the paths on
\* which the code calls that helper.

\* the provider consulted before the secondary, and what it gave
Primary(first) == IF has_openai THEN <<"openai">> ELSE <<>>
PrimaryGave(first) == IF has_openai THEN <<first>> ELSE <<>>

\* ai_bridge.py lines 63-84
chat_chain(first, second) ==
    IF has_openai /\ ~first.raised
    THEN Gave(first, Primary(first), PrimaryGave(first))
    ELSE IF has_openai /\ ~has_anthropic
    THEN Gave(Return(chat_apology(first.value)), Primary(first), PrimaryGave(first))
    ELSE IF has_anthropic
    THEN Gave(IF second.raised THEN Return(chat_apology(second.value)) ELSE second,
              Primary(first) \o <<"anthropic">>, PrimaryGave(first) \o <<second>>)
    ELSE Gave(Return(chat_unavailable), Primary(first), PrimaryGave(first))

\* lines 63-84 with the two providers tried in the other order
chat_chain_swapped(first, second) ==
    IF has_anthropic /\ ~second.raised
    THEN Gave(second, <<"anthropic">>, <<second>>)
    ELSE IF has_anthropic /\ ~has_openai
    THEN Gave(Return(chat_apology(second.value)), <<"anthropic">>, <<second>>)
    ELSE IF has_openai
    THEN Gave(IF first.raised THEN Return(chat_apology(first.value)) ELSE first,
              (IF has_anthropic THEN <<"anthropic">> ELSE <<>>) \o <<"openai">>,
              (IF has_anthropic THEN <<second>> ELSE <<>>) \o <<first>>)
    ELSE Gave(Return(chat_unavailable), <<>>, <<>>)

generate_chat_response_swapped(history, stage, info, oa, an) ==
    chat_chain_swapped(openai_generate_chat_response(history, stage, info, oa),
                       anthropic_generate_chat_response(history, stage, info, an))

\* ai_bridge.generate_chat_response
generate_chat_response(history, stage, info, oa, an) ==
    chat_chain(openai_generate_chat_response(history, stage, info, oa),
               anthropic_generate_chat_response(history, stage, info, an))

\* lines 97-118 returning the empty text where the code returns an apology
questions_chain_silent(first, second) ==
    IF has_openai /\ ~first.raised
    THEN Gave(first, Primary(first), PrimaryGave(first))
    ELSE IF has_openai /\ ~has_anthropic
    THEN Gave(Return(<<>>), Primary(first), PrimaryGave(first))
    ELSE IF has_anthropic
    THEN Gave(IF second.raised THEN Return(<<>>) ELSE second,
              Primary(first) \o <<"anthropic">>, PrimaryGave(first) \o <<second>>)
    ELSE Gave(Return(<<>>), Primary(first), PrimaryGave(first))

\* ai_bridge.py lines 97-118
questions_chain(first, second) ==
    IF has_openai /\ ~first.raised
    THEN Gave(first, Primary(first), PrimaryGave(first))
    ELSE IF has_openai /\ ~has_anthropic
    THEN Gave(Return(questions_apology(first.value)), Primary(first),
              PrimaryGave(first))
    ELSE IF has_anthropic
    THEN Gave(IF second.raised THEN Return(questions_apology(second.value))
              ELSE second,
              Primary(first) \o <<"anthropic">>, PrimaryGave(first) \o <<second>>)
    ELSE Gave(Return(questions_unavailable), Primary(first), PrimaryGave(first))

\* ai_bridge.generate_technical_questions
generate_technical_questions(tech_stack, oa, an) ==
    questions_chain(openai_generate_technical_questions(tech_stack, oa),
                    anthropic_generate_technical_questions(tech_stack, an))

\* ai_bridge.py lines 133-169
evaluate_chain(first, second) ==
    IF has_openai /\ ~first.raised
    THEN Gave(first, Primary(first), PrimaryGave(first))
    ELSE IF has_openai /\ ~has_anthropic
    THEN Gave(Return(error_response), Primary(first), PrimaryGave(first))
    ELSE IF has_anthropic
    THEN Gave(IF second.raised THEN Return(error_response) ELSE second,
              Primary(first) \o <<"anthropic">>, PrimaryGave(first) \o <<second>>)
    ELSE Gave(Return(unavailable_response), Primary(first), PrimaryGave(first))

\* lines 133-169 without the except clause of lines 153-160
evaluate_chain_uncaught(first, second) ==
    IF has_openai /\ ~first.raised
    THEN Gave(first, Primary(first), PrimaryGave(first))
    ELSE IF has_openai /\ ~has_anthropic
    THEN Gave(Return(error_response), Primary(first), PrimaryGave(first))
    ELSE IF has_anthropic
    THEN Gave(second, Primary(first) \o <<"anthropic">>,
              PrimaryGave(first) \o <<second>>)
    ELSE Gave(Return(unavailable_response), Primary(first), PrimaryGave(first))

evaluate_technical_response_uncaught(question, answer, tech_stack, oa, an) ==
    evaluate_chain_uncaught(
        openai_evaluate_technical_response(question, answer, tech_stack, oa),
        anthropic_evaluate_technical_response(question, answer, tech_stack, an))

\* ai_bridge.evaluate_technical_response
evaluate_technical_response(question, answer, tech_stack, oa, an) ==
    evaluate_chain(
        openai_evaluate_technical_response(question, answer, tech_stack, oa),
        anthropic_evaluate_technical_response(question, answer, tech_stack, an))

-----------------------------------------------------------------------------
(* Session state, src/utils.py.                                            *)

Msg(role, content) == [role |-> role, content |-> content]

\* lines 39-42 writing over the last message instead of appending
update_chat_history_overwriting(history, role, content) ==
    IF history = <<>> THEN <<Msg(role, content)>>
    ELSE [history EXCEPT ![Len(history)] = Msg(role, content)]

\* utils.update_chat_history
update_chat_history(history, role, content) == Append(history, Msg(role, content))

\* the assignment made to a new dict instead of candidate_info
set_field_fresh(info, key, value) == [k \in {key} |-> value]

\* candidate_info[key] = value
set_field(info, key, value) ==
    [k \in (DOMAIN info) \cup {key} |-> IF k = key THEN value ELSE info[k]]

\* the empty dict
EmptyInfo == [k \in {} |-> <<>>]

\* what the user can type or pick
\* the text typed in the text input: the empty text, or a text that names the
\* turn it is typed in (so that no two turns of a session send the same text)
Typed(n) == <<"text " \o ToString(n)>>
UserTexts == {<<>>, Typed(inputs + 1)}
Emails == {<<"a@b.com">>}
Phones == {<<"555-0100">>}
Years == {3}
Positions == {<<"Backend Engineer">>}
\* selections in the multiselect of utils.get_tech_stack_options
Selections == {<<>>, <<"Python", "Go">>}

welcome_message ==
    <<"Hello! I'm the TalentScout interview assistant. I'm here to learn about your skills and experience for potential tech positions. Let's start with your name.">>
generic_prompt ==
    <<"Let's discuss your technical experience. What projects have you worked on recently?">>

\* a provider outcome for a call the step does not make
Unused == Replies(<<>>)
NoCall == <<Unused, Unused>>

\* one gateway call as the step saw it
Call(op, args, res, oa, an) ==
    [op |-> op, args |-> args, raised |-> res.raised, value |-> res.value,
     consulted |-> res.consulted, outputs |-> res.outputs,
     api |-> [i \in 1..Len(res.consulted) |->
                 IF res.consulted[i] = "openai" THEN oa ELSE an]]

ChatCall(history, stage, info, oa, an) ==
    Call("chat", [history |-> history, stage |-> stage, info |-> info],
         generate_chat_response(history, stage, info, oa, an), oa, an)

QuestionsCall(tech_stack, oa, an) ==
    Call("questions", [tech_stack |-> tech_stack],
         generate_technical_questions(tech_stack, oa, an), oa, an)

EvaluateCall(question, answer, tech_stack, oa, an) ==
    Call("evaluate",
         [question |-> question, answer |-> answer, tech_stack |-> tech_stack],
         evaluate_technical_response(question, answer, tech_stack, oa, an), oa, an)

\* the session a handler leaves, with the gateway calls it made, the index it
\* read technical_questions at (-1: no read) and whether it ended in an
\* uncaught exception (the script run stops; the writes made so far stay)
After(history, stage, info, questions, index, calls, read, crashed) ==
    [chat_history |-> history, interview_stage |-> stage, candidate_info |-> info,
     technical_questions |-> questions, current_question_index |-> index,
     calls |-> calls, read |-> read, crashed |-> crashed]

\* lines 113-114 without the test of q.strip()
non_empty_lines_all(questions) == split(questions, NL)

\* utils.py lines 113-114: the lines q of the text with q.strip() non-empty
non_empty_lines(questions) ==
    SelectSeq(split(questions, NL), LAMBDA q : strip(q) # <<>>)

\* line 143 without its second test
all_questions_done_uncapped(index, questions) == index >= Len(questions)

\* line 143 without its first test
all_questions_done_unchecked(index, questions) == index >= MaxQuestions

\* utils.py line 143
all_questions_done(index, questions) ==
    index >= Len(questions) \/ index >= MaxQuestions

\* the session as it is, with the log, the candidate info, the calls made and
\* the index read replaced, after an uncaught exception
Aborted(history, info, calls, read) ==
    After(history, interview_stage, info, technical_questions,
          current_question_index, calls, read, TRUE)

\* the pattern of utils.py lines 98-106 and of the three forms: the reply of
\* generate_chat_response is appended, then the stage is set
reply_then_stage(history, info, call, stage) ==
    IF call.raised
    THEN Aborted(history, info, <<call>>, -1)
    ELSE After(update_chat_history(history, "assistant", call.value), stage, info,
               technical_questions, current_question_index, <<call>>, -1, FALSE)

\* utils.handle_user_response, stage 1 (lines 93-106)
handle_name(user_input, oa, an) ==
    reply_then_stage(
        update_chat_history(chat_history, "user", user_input),
        set_field(candidate_info, "name", user_input),
        ChatCall(update_chat_history(chat_history, "user", user_input),
                 interview_stage, set_field(candidate_info, "name", user_input),
                 oa, an),
        2)

\* lines 115-123 with the generic prompt kept as the question to answer
show_first_question_prompt_asked(history, call, questions) ==
    After(update_chat_history(history, "assistant",
                              IF questions # <<>> THEN questions[1]
                              ELSE generic_prompt),
          interview_stage, candidate_info,
          IF questions # <<>> THEN questions ELSE <<generic_prompt>>,
          0, <<call>>, -1, FALSE)

\* lines 115-123: the cursor is reset and the first question, or the generic
\* prompt when there is none, is appended
show_first_question(history, call, questions) ==
    After(update_chat_history(history, "assistant",
                              IF questions # <<>> THEN questions[1]
                              ELSE generic_prompt),
          interview_stage, candidate_info, questions, 0, <<call>>, -1, FALSE)

\* lines 112-123
first_entry(history, call) ==
    IF call.raised
    THEN Aborted(history, candidate_info, <<call>>, -1)
    ELSE show_first_question(history, call, non_empty_lines(call.value))

\* utils.handle_user_response, stage 5 with no questions yet (lines 110-123)
handle_first_entry(user_input, oa, an) ==
    first_entry(update_chat_history(chat_history, "user", user_input),
                QuestionsCall(candidate_info["tech_stack"], oa, an))

\* lines 142-153: the stage is set to 6, then the closing reply is appended
conclude(history, index, eval, closing) ==
    After(IF closing.raised THEN history
          ELSE update_chat_history(history, "assistant", closing.value),
          6, candidate_info, technical_questions, index, <<eval, closing>>,
          index - 1, closing.raised)

\* lines 136-153, once the evaluation has both keys
after_evaluation(history, index, eval, oa2, an2) ==
    IF ~all_questions_done(index, technical_questions)
    THEN After(history, interview_stage, candidate_info, technical_questions,
               index, <<eval>>, index - 1, FALSE)
    ELSE conclude(history, index, eval,
                  ChatCall(history, 6, candidate_info, oa2, an2))

\* lines 129-140: evaluation["response"] or evaluation["follow_up"] raises
\* KeyError when the key is missing
evaluated(history, eval, oa2, an2) ==
    IF eval.raised
    THEN Aborted(history, candidate_info, <<eval>>, current_question_index)
    ELSE IF ~({"response", "follow_up"} \subseteq DOMAIN eval.value)
    THEN Aborted(history, candidate_info, <<eval>>, current_question_index)
    ELSE after_evaluation(
             update_chat_history(history, "assistant",
                 eval.value["response"] \o <<" ">> \o eval.value["follow_up"]),
             current_question_index + 1, eval, oa2, an2)

\* utils.handle_user_response, stage 5 with questions (lines 124-153); the
\* list is 0-indexed in the code and 1-indexed here, and a read at or past its
\* length raises IndexError
handle_answer(user_input, oa, an, oa2, an2) ==
    IF current_question_index >= Len(technical_questions)
    THEN Aborted(update_chat_history(chat_history, "user", user_input),
                 candidate_info, <<>>, current_question_index)
    ELSE evaluated(
             update_chat_history(chat_history, "user", user_input),
             EvaluateCall(technical_questions[current_question_index + 1],
                          user_input, candidate_info["tech_stack"], oa, an),
             oa2, an2)

\* lines 155-164 with a text sent after the conclusion starting the interview over
handle_other_restart(user_input, oa, an) ==
    reply_then_stage(
        update_chat_history(chat_history, "user", user_input), candidate_info,
        ChatCall(update_chat_history(chat_history, "user", user_input),
                 interview_stage, candidate_info, oa, an),
        IF interview_stage = 6 THEN 1 ELSE interview_stage)

\* utils.handle_user_response, every other stage (lines 155-164)
handle_other(user_input, oa, an) ==
    reply_then_stage(
        update_chat_history(chat_history, "user", user_input), candidate_info,
        ChatCall(update_chat_history(chat_history, "user", user_input),
                 interview_stage, candidate_info, oa, an),
        interview_stage)

\* lines 82-164 with line 110 asking whether questions were ever generated
handle_user_response_generating_once(user_input, chat, questions, evaluate) ==
    IF interview_stage = 1
    THEN handle_name(user_input, chat[1], chat[2])
    ELSE IF interview_stage = 5
    THEN IF technical_questions = <<>> /\ genCalls = 0
         THEN handle_first_entry(user_input, questions[1], questions[2])
         ELSE handle_answer(user_input, evaluate[1], evaluate[2], chat[1], chat[2])
    ELSE handle_other(user_input, chat[1], chat[2])

\* utils.handle_user_response (lines 82-164); chat, questions and evaluate are
\* what the two providers do on a call of that kind during this turn
handle_user_response(user_input, chat, questions, evaluate) ==
    IF interview_stage = 1
    THEN handle_name(user_input, chat[1], chat[2])
    ELSE IF interview_stage = 5
    THEN IF technical_questions = <<>>
         THEN handle_first_entry(user_input, questions[1], questions[2])
         ELSE handle_answer(user_input, evaluate[1], evaluate[2], chat[1], chat[2])
    ELSE handle_other(user_input, chat[1], chat[2])

-----------------------------------------------------------------------------
(* The script of src/app.py: one action per user action.                   *)

\* line 81 dropped: the welcome is appended on every run
welcome_due_always(history) == TRUE

\* app.py line 81
welcome_due(history) == Len(history) = 0

\* line 150 testing the button only
tech_stack_accepted_any(submit_tech, selected_techs) == submit_tech

\* app.py line 150
tech_stack_accepted(submit_tech, selected_techs) ==
    submit_tech /\ selected_techs # <<>>

\* app.py line 170
text_accepted(send, user_input) == send /\ user_input # <<>>

\* no provider call is outstanding: the script is not running
Idle == "idle"

\* what a provider may do on a call of this step: once the session has used up
\* its deviating turns, only the nominal reply
Within(outcomes, op, p) ==
    IF deviations < MaxDeviations THEN outcomes ELSE {Nominal(op, p)}
ChatApi(p) == Within(ChatOutcomes(p), "chat", p)
QuestionsApi(p) == Within(QuestionsOutcomes(p), "questions", p)
EvaluateApi(p) == Within(EvaluateOutcomes(p), "evaluate", p)

Deviates(calls) ==
    \E i \in 1..Len(calls) : \E j \in 1..Len(calls[i].consulted) :
        calls[i].api[j] # Nominal(calls[i].op, calls[i].consulted[j])

EvalEntries(r) ==
    SelectSeq([i \in 1..Len(r.calls) |->
                  [op |-> r.calls[i].op, index |-> r.read,
                   question |-> IF r.calls[i].op = "evaluate"
                                THEN r.calls[i].args.question ELSE <<>>,
                   answer |-> IF r.calls[i].op = "evaluate"
                              THEN r.calls[i].args.answer ELSE <<>>]],
              LAMBDA e : e.op = "evaluate")

Count(calls, op) == Len(SelectSeq(calls, LAMBDA c : c.op = op))

\* the step of a handler that left r
Apply(op, input, r) ==
    /\ waiting = Idle
    /\ inputs < MaxInputs
    /\ deviations + (IF Deviates(r.calls) THEN 1 ELSE 0) <= MaxDeviations
    /\ chat_history' = r.chat_history
    /\ interview_stage' = r.interview_stage
    /\ candidate_info' = r.candidate_info
    /\ technical_questions' = r.technical_questions
    /\ current_question_index' = r.current_question_index
    /\ turn' = [op |-> op, input |-> input, calls |-> r.calls, read |-> r.read,
                crashed |-> r.crashed]
    /\ evalLog' = evalLog \o EvalEntries(r)
    /\ genCalls' = genCalls + Count(r.calls, "questions")
    /\ conclusions' = conclusions +
           (IF r.interview_stage = 6 /\ interview_stage # 6 THEN 1 ELSE 0)
    /\ inputs' = inputs + 1
    /\ deviations' = deviations + (IF Deviates(r.calls) THEN 1 ELSE 0)
    /\ UNCHANGED <<has_openai, has_anthropic, waiting>>

\* a submission the script ignores
Ignore(op, input) ==
    /\ waiting = Idle
    /\ turn' = [op |-> op, input |-> input, calls |-> <<>>, read |-> -1,
                crashed |-> FALSE]
    /\ UNCHANGED <<session, has_openai, has_anthropic, evalLog, genCalls,
                   conclusions, inputs, deviations, waiting>>

\* utils.initialize_session_state, on the first run of a session; the
\* provider flags are set when ai_bridge is imported
Init ==
    /\ chat_history = <<>>
    /\ interview_stage = 0
    /\ candidate_info = EmptyInfo
    /\ technical_questions = <<>>
    /\ current_question_index = 0
    /\ has_openai \in BOOLEAN
    /\ has_anthropic \in BOOLEAN
    /\ turn = [op |-> "open", input |-> <<>>, calls |-> <<>>, read |-> -1,
               crashed |-> FALSE]
    /\ evalLog = <<>>
    /\ genCalls = 0
    /\ conclusions = 0
    /\ inputs = 0
    /\ deviations = 0
    /\ waiting = Idle

\* app.py lines 80-85: the run that finds the log empty
welcome ==
    /\ waiting = Idle
    /\ welcome_due(chat_history)
    /\ chat_history' = update_chat_history(chat_history, "assistant", welcome_message)
    /\ interview_stage' = 1
    /\ turn' = [op |-> "welcome", input |-> <<>>, calls |-> <<>>, read |-> -1,
                crashed |-> FALSE]
    /\ UNCHANGED <<candidate_info, technical_questions, current_question_index,
                   has_openai, has_anthropic, evalLog, genCalls, conclusions,
                   inputs, deviations, waiting>>

\* the text input is shown at the stages that have no form (app.py 167-173)
TextStage == ~welcome_due(chat_history) /\ interview_stage \notin {2, 3, 4}

\* Send with a text typed, by what the stage lets the handler call
send_name ==
    /\ TextStage /\ interview_stage = 1
    /\ \E user_input \in UserTexts, oa \in ChatApi("openai"), an \in ChatApi("anthropic") :
          /\ text_accepted(TRUE, user_input)
          /\ Apply("send_name", user_input,
                   handle_user_response(user_input, <<oa, an>>, NoCall, NoCall))

send_first_entry ==
    /\ TextStage /\ interview_stage = 5 /\ technical_questions = <<>>
    /\ \E user_input \in UserTexts,
          oa \in QuestionsApi("openai"), an \in QuestionsApi("anthropic") :
          /\ text_accepted(TRUE, user_input)
          /\ Apply("send_first_entry", user_input,
                   handle_user_response(user_input, NoCall, <<oa, an>>, NoCall))

send_answer ==
    /\ TextStage /\ interview_stage = 5 /\ technical_questions # <<>>
    /\ \E user_input \in UserTexts,
          oa \in EvaluateApi("openai"), an \in EvaluateApi("anthropic"),
          oa2 \in ChatApi("openai"), an2 \in ChatApi("anthropic") :
          /\ text_accepted(TRUE, user_input)
          /\ Apply("send_answer", user_input,
                   handle_user_response(user_input, <<oa2, an2>>, NoCall, <<oa, an>>))

send_other ==
    /\ TextStage /\ interview_stage \notin {1, 5}
    /\ \E user_input \in UserTexts, oa \in ChatApi("openai"), an \in ChatApi("anthropic") :
          /\ text_accepted(TRUE, user_input)
          /\ Apply("send_other", user_input,
                   handle_user_response(user_input, <<oa, an>>, NoCall, NoCall))

\* Send with nothing typed
send_empty ==
    /\ TextStage
    /\ \E user_input \in UserTexts :
          /\ ~text_accepted(TRUE, user_input)
          /\ Ignore("send_empty", user_input)

\* the user's line of a form and the field(s) it writes
contact_text(contact_email, contact_phone) ==
    <<"Email: ">> \o contact_email \o <<", Phone: ">> \o contact_phone
experience_text(years_experience, desired_position) ==
    <<"Experience: ", ToString(years_experience), " years, Desired position: ">>
    \o desired_position
tech_text(selected_techs) == <<"Tech skills: ">> \o join(selected_techs)

\* a form's submit branch with the stage set before the reply is asked for
submit_form_stage_first(text, info, oa, an, stage) ==
    reply_then_stage(
        update_chat_history(chat_history, "user", text), info,
        ChatCall(update_chat_history(chat_history, "user", text), stage, info,
                 oa, an),
        stage)

\* a form's submit branch without the write of its field(s)
submit_form_unrecorded(text, info, oa, an, stage) ==
    reply_then_stage(
        update_chat_history(chat_history, "user", text), candidate_info,
        ChatCall(update_chat_history(chat_history, "user", text),
                 interview_stage, candidate_info, oa, an),
        stage)

\* the body of a form's submit branch: the user's line is appended, the
\* fields are written, the reply is appended, the stage is set
submit_form(text, info, oa, an, stage) ==
    reply_then_stage(
        update_chat_history(chat_history, "user", text), info,
        ChatCall(update_chat_history(chat_history, "user", text),
                 interview_stage, info, oa, an),
        stage)

\* app.py lines 92-113
contact_form ==
    /\ ~welcome_due(chat_history) /\ interview_stage = 2
    /\ \E contact_email \in Emails, contact_phone \in Phones,
          oa \in ChatApi("openai"), an \in ChatApi("anthropic") :
          Apply("contact_form", contact_text(contact_email, contact_phone),
                submit_form(contact_text(contact_email, contact_phone),
                            set_field(candidate_info, "contact",
                                      contact_text(contact_email, contact_phone)),
                            oa, an, 3))

\* app.py lines 115-137
experience_form ==
    /\ ~welcome_due(chat_history) /\ interview_stage = 3
    /\ \E years_experience \in Years, desired_position \in Positions,
          oa \in ChatApi("openai"), an \in ChatApi("anthropic") :
          Apply("experience_form",
                experience_text(years_experience, desired_position),
                submit_form(experience_text(years_experience, desired_position),
                            set_field(set_field(candidate_info, "experience",
                                                years_experience),
                                      "position", desired_position),
                            oa, an, 4))

\* app.py lines 139-165, a submission that passes line 150
tech_stack_form ==
    /\ ~welcome_due(chat_history) /\ interview_stage = 4
    /\ \E selected_techs \in Selections,
          oa \in ChatApi("openai"), an \in ChatApi("anthropic") :
          /\ tech_stack_accepted(TRUE, selected_techs)
          /\ Apply("tech_stack_form", tech_text(selected_techs),
                   submit_form(tech_text(selected_techs),
                               set_field(candidate_info, "tech_stack",
                                         selected_techs),
                               oa, an, 5))

\* app.py lines 139-150, a submission that does not pass line 150
tech_stack_form_rejected ==
    /\ ~welcome_due(chat_history) /\ interview_stage = 4
    /\ \E selected_techs \in Selections :
          /\ ~tech_stack_accepted(TRUE, selected_techs)
          /\ Ignore("tech_stack_form_rejected", selected_techs)

Next ==
    \/ welcome
    \/ send_name
    \/ send_first_entry
    \/ send_answer
    \/ send_other
    \/ send_empty
    \/ contact_form
    \/ experience_form
    \/ tech_stack_form
    \/ tech_stack_form_rejected

Spec == Init /\ [][Next]_vars

\* the providers a gateway call can reach: OpenAI first when configured,
\* Anthropic when OpenAI is not configured or has raised
Configured ==
    (IF has_openai THEN {"openai"} ELSE {}) \cup
    (IF has_anthropic THEN {"anthropic"} ELSE {})

\* what a turn has written when it makes its first gateway call: the user's
\* line is in the log and the field(s) of the stage are set (utils.py 91-98,
\* 111-112, 126-129, 156-159; app.py 99-106, 122-130, 151-158)
BeforeFirstCall ==
    IF interview_stage = 2
    THEN {[text |-> contact_text(e, ph),
           info |-> set_field(candidate_info, "contact", contact_text(e, ph))] :
              e \in Emails, ph \in Phones}
    ELSE IF interview_stage = 3
    THEN {[text |-> experience_text(y, pos),
           info |-> set_field(set_field(candidate_info, "experience", y),
                              "position", pos)] :
              y \in Years, pos \in Positions}
    ELSE IF interview_stage = 4
    THEN {[text |-> tech_text(sel),
           info |-> set_field(candidate_info, "tech_stack", sel)] :
              sel \in {t \in Selections : tech_stack_accepted(TRUE, t)}}
    ELSE {[text |-> t,
           info |-> IF interview_stage = 1
                    THEN set_field(candidate_info, "name", t) ELSE candidate_info] :
              t \in {u \in UserTexts : text_accepted(TRUE, u)}}

\* a turn whose provider call does not return.  The helpers call
\* client.chat.completions.create / client.messages.create with no timeout
\* argument and the gateway only catches exceptions, so the script stays in
\* the call: what the turn wrote before the call is in the session, nothing
\* after the call is run, and the session takes no further input.
provider_call_hangs ==
    /\ waiting = Idle
    /\ ~welcome_due(chat_history)
    /\ inputs < MaxInputs
    /\ \E b \in BeforeFirstCall, p \in Configured :
          /\ chat_history' = update_chat_history(chat_history, "user", b.text)
          /\ candidate_info' = b.info
          /\ waiting' = p
    /\ UNCHANGED <<interview_stage, technical_questions, current_question_index,
                   has_openai, has_anthropic, turn, evalLog, genCalls,
                   conclusions, inputs, deviations>>

NextLive == Next \/ provider_call_hangs

\* the one step no user action starts, the run of the script that opens the
\* session, is taken; whether the candidate goes on answering is left open
LiveSpec == Init /\ [][NextLive]_vars /\ WF_vars(welcome)

-----------------------------------------------------------------------------
(* The system prompt, get_system_prompt of the two helpers and of the      *)
(* gateway.                                                                *)

\* base_prompt (openai_helper.py 171-174): two tokens, the description of the
\* assistant and the heading of the candidate summary
base_prompt ==
    <<"You are an intelligent hiring assistant for TalentScout, a recruitment agency specializing in tech placements. You are conducting a preliminary technical interview with a candidate. Be professional but conversational and friendly.",
      NL, NL, "Candidate information collected so far:", NL>>

\* the keys in the order in which the stages insert them into the dict
FieldOrder == <<"name", "contact", "experience", "position", "tech_stack">>

\* f"{value}" for the values the session stores: a text as it is, and the
\* years of experience, the one value that is a number, as a numeral
format_value(key, value) ==
    IF key = "experience" THEN <<ToString(value)>> ELSE value

\* lines 176-180: one line per key, the tech_stack list joined with ", "
info_line(key, value) ==
    <<"- ", key, ": ">>
    \o (IF key = "tech_stack" THEN join(value) ELSE format_value(key, value))
    \o <<NL>>

RECURSIVE info_lines(_, _)
info_lines(info, keys) ==
    IF keys = <<>> THEN <<>>
    ELSE (IF Head(keys) \in DOMAIN info
          THEN info_line(Head(keys), info[Head(keys)]) ELSE <<>>)
         \o info_lines(info, Tail(keys))

\* stage_prompts (lines 183-227): the first line of each block and a token
\* for the lines after it
stage_prompts ==
    [s \in 1..6 |->
        <<NL,
          CASE s = 1 -> "You are at the INTRODUCTION stage of the interview."
            [] s = 2 -> "You are at the CONTACT INFORMATION stage of the interview."
            [] s = 3 -> "You are at the EXPERIENCE & POSITION stage of the interview."
            [] s = 4 -> "You are at the TECHNICAL SKILLS stage of the interview."
            [] s = 5 -> "You are at the TECHNICAL ASSESSMENT stage of the interview."
            [] s = 6 -> "You are at the CONCLUSION stage of the interview.",
          NL, "guidance of stage " \o ToString(s), NL>>]

\* openai_helper.get_system_prompt
openai_get_system_prompt(stage, info) ==
    base_prompt \o info_lines(info, FieldOrder)
    \o (IF stage \in DOMAIN stage_prompts THEN stage_prompts[stage] ELSE <<>>)

\* anthropic_helper.get_system_prompt, the same text
anthropic_get_system_prompt(stage, info) ==
    base_prompt \o info_lines(info, FieldOrder)
    \o (IF stage \in DOMAIN stage_prompts THEN stage_prompts[stage] ELSE <<>>)

\* ai_bridge.py line 189
basic_prompt ==
    <<"You are an intelligent hiring assistant for TalentScout. Conduct a technical interview in a friendly manner.">>

\* ai_bridge.get_system_prompt
get_system_prompt(stage, info) ==
    IF has_openai THEN openai_get_system_prompt(stage, info)
    ELSE IF has_anthropic THEN anthropic_get_system_prompt(stage, info)
    ELSE basic_prompt

\* the stage values and candidate infos get_system_prompt is called with:
\* the stages 0 to 6 and one value past them, and every set of keys
MaxPromptStage == 7
PromptStages == 0..MaxPromptStage
FieldValues(key) ==
    CASE key = "name" -> {<<"Ada">>}
      [] key = "contact" -> {contact_text(e, ph) : e \in Emails, ph \in Phones}
      [] key = "experience" -> Years
      [] key = "position" -> Positions
      [] key = "tech_stack" -> {<<"Python", "Go">>, <<"Rust">>}
RECURSIVE InfosOver(_)
InfosOver(keys) ==
    IF keys = <<>> THEN {EmptyInfo}
    ELSE InfosOver(Tail(keys)) \cup
         {set_field(f, Head(keys), v) :
              f \in InfosOver(Tail(keys)), v \in FieldValues(Head(keys))}
PromptInfos == InfosOver(FieldOrder)

InitPrompt ==
    /\ chat_history = <<>>
    /\ interview_stage \in PromptStages
    /\ candidate_info \in PromptInfos
    /\ technical_questions = <<>>
    /\ current_question_index = 0
    /\ has_openai \in BOOLEAN
    /\ has_anthropic \in BOOLEAN
    /\ turn = [op |-> "open", input |-> <<>>, calls |-> <<>>, read |-> -1,
               crashed |-> FALSE]
    /\ evalLog = <<>>
    /\ genCalls = 0
    /\ conclusions = 0
    /\ inputs = 0
    /\ deviations = 0
    /\ waiting = Idle

\* one call of ai_bridge.get_system_prompt with the stage and the info
build_system_prompt ==
    /\ turn.op = "open"
    /\ turn' = [op |-> "get_system_prompt", input |-> <<>>, calls |-> <<>>,
                read |-> -1, crashed |-> FALSE,
                value |-> get_system_prompt(interview_stage, candidate_info)]
    /\ UNCHANGED <<session, has_openai, has_anthropic, evalLog, genCalls,
                   conclusions, inputs, deviations, waiting>>

NextPrompt == build_system_prompt

PromptSpec == InitPrompt /\ [][NextPrompt]_vars

-----------------------------------------------------------------------------
(* Properties.                                                             *)

\* the gateway calls of the last step
Calls == {turn.calls[i] : i \in 1..Len(turn.calls)}

\* C1: no step of a session (session open, a text sent at any stage, a form
\* submitted, a submission the script ignores) lowers interview_stage.
C1_StageNeverDecreases == [][interview_stage' >= interview_stage]_vars

\* a text handled after the conclusion: the stage was 6 and stays 6
C1_Witness ==
    interview_stage = 6 /\ turn.op = "send_other" /\ conclusions = 1

\* C2: in every reachable state current_question_index is at most
\* min(len(technical_questions), 5).
C2_CursorBounded ==
    current_question_index <= Min(Len(technical_questions), MaxQuestions)

\* the cursor stopped at 5 in front of a sixth generated line
C2_Witness ==
    /\ Len(technical_questions) = MaxQuestions + 1
    /\ current_question_index = MaxQuestions
    /\ interview_stage = 6

\* C3: in every reachable state, stage 5 implies that candidate_info holds a
\* non-empty tech_stack.
C3_AssessmentHasTechStack ==
    interview_stage = 5 =>
        /\ "tech_stack" \in DOMAIN candidate_info
        /\ candidate_info["tech_stack"] # <<>>

\* the tech-stack form has just moved the session to stage 5
C3_Witness ==
    /\ interview_stage = 5
    /\ turn.op = "tech_stack_form"
    /\ Len(candidate_info["tech_stack"]) = 2

\* C4: whatever the provider configuration and whatever the providers do,
\* every call of the three gateway operations returns a value and none raises.
C4_GatewayNeverRaises == \A c \in Calls : ~c.raised

\* an evaluation in which both providers were configured and both raised
C4_Witness ==
    \E c \in Calls :
        /\ c.op = "evaluate"
        /\ Len(c.outputs) = 2
        /\ c.outputs[1].raised /\ c.outputs[2].raised
        /\ ~c.raised
        /\ c.value = error_response

\* C5: in every gateway call the primary, when configured, is consulted first,
\* the secondary only when the primary is not configured or raised, each at
\* most once, and the value returned is the output of the first consulted
\* provider that did not raise.
C5_PrimaryThenSecondary ==
    \A c \in Calls :
        /\ c.consulted \in {<<>>, <<"openai">>, <<"anthropic">>,
                            <<"openai", "anthropic">>}
        /\ has_openai => (c.consulted # <<>> /\ c.consulted[1] = "openai")
        /\ (\E i \in 1..Len(c.consulted) : c.consulted[i] = "anthropic") =>
               /\ has_anthropic
               /\ (~has_openai \/ c.outputs[1].raised)
        /\ \A i \in 1..Len(c.outputs) :
               (~c.outputs[i].raised /\ \A j \in 1..(i - 1) : c.outputs[j].raised)
                   => (~c.raised /\ c.value = c.outputs[i].value)

\* the primary raised, the secondary answered, and its reply is what the chat
\* operation returned
C5_Witness ==
    \E c \in Calls :
        /\ c.op = "chat"
        /\ c.consulted = <<"openai", "anthropic">>
        /\ c.outputs[1].raised
        /\ ~c.outputs[2].raised
        /\ c.value = ChatReply("anthropic")

\* C6: every input the controller handles, at any stage and whatever the
\* providers do, leaves the user's message followed by at least one new
\* assistant message at the end of the log.
C6_EveryInputAnswered ==
    [][inputs' = inputs + 1 =>
          /\ Len(chat_history') >= Len(chat_history) + 2
          /\ chat_history'[Len(chat_history) + 1].role = "user"
          /\ \A i \in (Len(chat_history) + 2)..Len(chat_history') :
                 chat_history'[i].role = "assistant"]_vars

\* C7: with N >= 1 generated questions the session enters CONCLUSION on the
\* turn of evaluation call number min(N, 5), and on no other turn.
C7_ConclusionAfterMinN5 ==
    [][(turn'.op = "send_answer" /\ Len(technical_questions) >= 1) =>
          ((interview_stage = 5 /\ interview_stage' = 6)
              <=> Len(evalLog') = Min(Len(technical_questions), MaxQuestions))]_vars

\* C8: the k-th evaluation call of a session is made with the question at
\* index k-1 and the text sent in that turn, and the cursor always equals the
\* number of evaluation calls made so far.
C8_CursorCountsEvaluations ==
    /\ current_question_index = Len(evalLog)
    /\ \A k \in 1..Len(evalLog) :
           /\ evalLog[k].index = k - 1
           /\ k <= Len(technical_questions)
           /\ evalLog[k].question = technical_questions[k]
    /\ (turn.op = "send_answer" /\ evalLog # <<>>) =>
           evalLog[Len(evalLog)].answer = turn.input

\* C9: every read of technical_questions[current_question_index] is made at
\* an index below the length of the list.
C9_ReadInsideList ==
    turn.read # -1 =>
        (0 <= turn.read /\ turn.read < Len(technical_questions))

\* a two-line list read at its last index, on the turn that ends the loop
C9_Witness ==
    /\ Len(technical_questions) = 2
    /\ turn.op = "send_answer"
    /\ turn.read = 1
    /\ interview_stage = 6

\* the positions in the log at which the assistant put question k (1-based)
Asked(k) ==
    {i \in 1..Len(chat_history) :
        /\ chat_history[i].role = "assistant"
        /\ chat_history[i].content = technical_questions[k]}

\* the position in the log of the answer evaluated in evaluation call k
Answered(k) ==
    {i \in 1..Len(chat_history) :
        /\ chat_history[i].role = "user"
        /\ chat_history[i].content = evalLog[k].answer}

\* C10: with five generated questions and five answers, each of the five
\* question texts is in the log as an assistant message exactly once, in list
\* order, before the answer that is evaluated against it.
C10_FiveQuestionsAsked ==
    (Len(technical_questions) = 5 /\ Len(evalLog) = 5 /\ interview_stage = 6) =>
        \A k \in 1..5 :
            /\ Cardinality(Asked(k)) = 1
            /\ \A i \in Asked(k) : \A j \in Answered(k) : i < j
            /\ k < 5 => \A i \in Asked(k) : \A j \in Asked(k + 1) : i < j

\* the messages a step appends to the log, and those of one role among them
Appended == SubSeq(chat_history', Len(chat_history) + 1, Len(chat_history'))
AppendedBy(role) == SelectSeq(Appended, LAMBDA m : m.role = role)

\* the calls of one gateway operation among the calls of a step
CallsOf(calls, op) == SelectSeq(calls, LAMBDA c : c.op = op)

\* a step that handles an input (a text sent or a form submitted)
Handled == inputs' = inputs + 1

\* C11: the first assistant message appended at stage 5 is the text of
\* question #1, and the next text sent is handled as the answer to it: one
\* evaluation call with (question #1, that text, the selected tech stack), the
\* assistant message response + " " + follow_up appended, the cursor 1 after
\* the step.
C11_FirstQuestionThenAnswer ==
    [][/\ (Handled /\ interview_stage = 5 /\ genCalls = 0
              /\ technical_questions' # <<>>) =>
              /\ AppendedBy("assistant") # <<>>
              /\ AppendedBy("assistant")[1].content = technical_questions'[1]
       /\ (Handled /\ interview_stage = 5 /\ technical_questions # <<>>
              /\ evalLog = <<>>) =>
              /\ Len(CallsOf(turn'.calls, "evaluate")) = 1
              /\ CallsOf(turn'.calls, "evaluate")[1].args =
                     [question |-> technical_questions[1],
                      answer |-> turn'.input,
                      tech_stack |-> candidate_info["tech_stack"]]
              /\ {"response", "follow_up"} \subseteq
                     DOMAIN CallsOf(turn'.calls, "evaluate")[1].value
              /\ AppendedBy("assistant") # <<>>
              /\ AppendedBy("assistant")[1].content =
                     CallsOf(turn'.calls, "evaluate")[1].value["response"]
                     \o <<" ">> \o
                     CallsOf(turn'.calls, "evaluate")[1].value["follow_up"]
              /\ current_question_index' = 1]_vars

\* the lines of a text that hold something besides whitespace
UsableLines(text) ==
    SelectSeq(split(text, NL), LAMBDA q : \E i \in 1..Len(q) : q[i] \notin Whitespace)

\* C12: a text handled at stage 5 while technical_questions is empty makes
\* one generate_technical_questions call and no evaluate_technical_response
\* call, leaves in technical_questions the non-empty lines of the returned
\* text, in order, sets the cursor to 0, appends the line at index 0 (when
\* there is one) as the assistant message, and leaves the stage at 5.
C12_FirstEntryGenerates ==
    [][(Handled /\ interview_stage = 5 /\ technical_questions = <<>>) =>
          /\ Len(CallsOf(turn'.calls, "questions")) = 1
          /\ CallsOf(turn'.calls, "evaluate") = <<>>
          /\ technical_questions' =
                 UsableLines(CallsOf(turn'.calls, "questions")[1].value)
          /\ current_question_index' = 0
          /\ interview_stage' = 5
          /\ technical_questions' # <<>> =>
                 /\ Len(AppendedBy("assistant")) = 1
                 /\ AppendedBy("assistant")[1].content = technical_questions'[1]]_vars

\* the returned text had blank and whitespace-only lines around two
\* questions: the two questions are the list and the first one was shown
C12_Witness ==
    /\ turn.op = "send_first_entry"
    /\ \E p \in {"openai", "anthropic"} :
           /\ turn.calls[1].value = TwoLines(p)
           /\ technical_questions = <<Question(p, 1), Question(p, 2)>>
           /\ chat_history[Len(chat_history)] = Msg("assistant", Question(p, 1))
    /\ current_question_index = 0
    /\ interview_stage = 5

\* C13: when the generated text has no non-empty line, the step appends the
\* generic technical-discussion prompt as the assistant message and leaves
\* the stage at 5 and the cursor at 0; the step that follows the prompt does
\* not move the session to stage 6.
C13_NoQuestionsNoConclusion ==
    [][/\ (Handled /\ CallsOf(turn'.calls, "questions") # <<>>
              /\ UsableLines(CallsOf(turn'.calls, "questions")[1].value) = <<>>) =>
              /\ AppendedBy("assistant") = <<Msg("assistant", generic_prompt)>>
              /\ interview_stage' = 5
              /\ current_question_index' = 0
       /\ (interview_stage = 5
              /\ chat_history[Len(chat_history)] = Msg("assistant", generic_prompt)) =>
              interview_stage' = 5]_vars

\* the generic prompt was shown, and the text sent after it was handled: the
\* session is still at stage 5, with the questions of a second generation
C13_Witness ==
    /\ turn.op = "send_first_entry"
    /\ genCalls = 2
    /\ Len(chat_history) >= 3
    /\ chat_history[Len(chat_history) - 2] = Msg("assistant", generic_prompt)
    /\ interview_stage = 5
    /\ current_question_index = 0
    /\ Len(technical_questions) = 5

\* C14: generate_technical_questions is called at most once in a session,
\* and once a generation turn has assigned technical_questions no later step
\* changes the list.
C14_GeneratedOnce ==
    [][/\ genCalls' <= 1
       /\ genCalls >= 1 => technical_questions' = technical_questions]_vars

\* C15: submitting the tech-stack form with no technology selected changes
\* nothing: the stage stays 4, candidate_info gets no tech_stack, no message
\* is appended and no gateway call is made.
C15_EmptySelectionIgnored ==
    [][(interview_stage = 4 /\ turn'.input \in {<<>>, tech_text(<<>>)}) =>
          /\ interview_stage' = 4
          /\ "tech_stack" \notin DOMAIN candidate_info'
          /\ candidate_info' = candidate_info
          /\ chat_history' = chat_history
          /\ turn'.calls = <<>>
          /\ UNCHANGED <<technical_questions, current_question_index>>]_vars

\* the form was submitted with nothing selected
C15_Witness ==
    /\ turn.op = "tech_stack_form_rejected"
    /\ turn.input = <<>>
    /\ interview_stage = 4
    /\ "tech_stack" \notin DOMAIN candidate_info
    /\ chat_history[Len(chat_history)].role = "assistant"

\* the candidate fields of the stages 1 to 4
StageFields(stage) ==
    CASE stage = 1 -> {"name"}
      [] stage = 2 -> {"contact"}
      [] stage = 3 -> {"experience", "position"}
      [] stage = 4 -> {"tech_stack"}

\* C16: at each of the stages 1 to 4, handling one valid input writes the
\* candidate field(s) of that stage and no other, leaves every field written
\* before in place with its value, makes exactly one generate_chat_response
\* call and no other gateway call, and raises the stage by one.
C16_OneFieldOneReplyOneStage ==
    [][(Handled /\ interview_stage \in 1..4) =>
          /\ DOMAIN candidate_info' =
                 DOMAIN candidate_info \cup StageFields(interview_stage)
          /\ \A k \in DOMAIN candidate_info \ StageFields(interview_stage) :
                 candidate_info'[k] = candidate_info[k]
          /\ interview_stage \in {1, 2} =>
                 \A k \in StageFields(interview_stage) :
                     candidate_info'[k] = turn'.input
          /\ Len(turn'.calls) = 1
          /\ turn'.calls[1].op = "chat"
          /\ interview_stage' = interview_stage + 1]_vars

\* the experience form was handled: four fields, the name still the text
\* sent at stage 1
C16_Witness ==
    /\ turn.op = "experience_form"
    /\ interview_stage = 4
    /\ DOMAIN candidate_info = {"name", "contact", "experience", "position"}
    /\ candidate_info["name"] = Typed(1)
    /\ candidate_info["experience"] = 3
    /\ Len(turn.calls) = 1

\* the text of the provider that answered a gateway call (the last one
\* consulted, when it did not raise), without fence markers and surrounding
\* whitespace
Answering(c) == c.api[Len(c.api)]
Unfenced(text) == strip(remove(remove(text, FenceJson), Fence))

\* an evaluation call that failed: no provider is configured, every provider
\* consulted raised, or the answering provider's text is no JSON document
NoneConfigured(c) == c.consulted = <<>>
AllRaised(c) ==
    c.consulted # <<>> /\ \A i \in 1..Len(c.api) : c.api[i].raised
Unparsable(c) ==
    /\ c.consulted # <<>>
    /\ ~Answering(c).raised
    /\ ~IsJsonObject(Unfenced(Answering(c).text))

\* C17: evaluate_technical_response returns the same fallback object
\* (assessment "Unable to evaluate response", response "... I'm having some
\* technical difficulties with my evaluation system.", follow_up "Can you
\* tell me more about your experience with this technology?") in every
\* failure case: both providers raise, none is configured, or the returned
\* text cannot be parsed.
C17_OneEvaluationFallback ==
    \A c \in Calls :
        (c.op = "evaluate" /\ (NoneConfigured(c) \/ AllRaised(c) \/ Unparsable(c)))
            => c.value = error_response

\* the answering provider's text is a JSON object that lacks one of the three
\* fields
LacksField(c) ==
    /\ c.consulted # <<>>
    /\ ~Answering(c).raised
    /\ IsJsonObject(Unfenced(Answering(c).text))
    /\ ~({"assessment", "response", "follow_up"} \subseteq
             DOMAIN ParseObject(Unfenced(Answering(c).text)))

\* C18: when the provider that answers an evaluation returns valid JSON that
\* lacks one of assessment, response and follow_up, the gateway returns the
\* fallback object with the three fields and the turn completes: the step
\* appends response + " " + follow_up as the assistant message and raises
\* the cursor by one.
C18_MissingFieldAbsorbed ==
    [][(Handled /\ CallsOf(turn'.calls, "evaluate") # <<>>
           /\ LacksField(CallsOf(turn'.calls, "evaluate")[1])) =>
          /\ CallsOf(turn'.calls, "evaluate")[1].value = error_response
          /\ ~turn'.crashed
          /\ AppendedBy("assistant") # <<>>
          /\ AppendedBy("assistant")[1].content =
                 error_response["response"] \o <<" ">> \o error_response["follow_up"]
          /\ current_question_index' = current_question_index + 1]_vars

\* the answering provider's text is a JSON object inside code-fence markers
Fenced(c) ==
    /\ c.consulted # <<>>
    /\ ~Answering(c).raised
    /\ Answering(c).text # <<>>
    /\ Answering(c).text[1] = FenceJson
    /\ IsJsonObject(Unfenced(Answering(c).text))

\* C19: whichever provider answers an evaluation, when its text is a JSON
\* object wrapped in json code fences the gateway returns the object of the
\* inner JSON, field for field, and when its text is malformed JSON the
\* gateway returns the fixed fallback object.
C19_FencedJsonParsed ==
    \A c \in Calls :
        c.op = "evaluate" =>
            /\ Fenced(c) => c.value = ParseObject(Unfenced(Answering(c).text))
            /\ Unparsable(c) => c.value = error_response

\* C20: once interview_stage is 6, no step (a text sent, an empty Send)
\* changes interview_stage, candidate_info, technical_questions or
\* current_question_index.
C20_ConclusionTerminal ==
    [][interview_stage = 6 =>
          UNCHANGED <<interview_stage, candidate_info, technical_questions,
                      current_question_index>>]_vars

\* a text was handled after the fifth answer had ended the interview: one
\* more chat call, the stage, the list and the cursor as they were
C20_Witness ==
    /\ turn.op = "send_other"
    /\ turn.input # <<>>
    /\ Len(turn.calls) = 1
    /\ interview_stage = 6
    /\ Len(technical_questions) = 5
    /\ current_question_index = 5
    /\ chat_history[Len(chat_history) - 1] = Msg("user", turn.input)

\* the generate_chat_response calls of a step made with stage 6
ClosingCalls(calls) ==
    SelectSeq(calls, LAMBDA c : c.op = "chat" /\ c.args.stage = 6)

\* C21: generate_chat_response is called with stage 6 once in a session, on
\* the step that enters stage 6, and no step taken at stage 6 makes a
\* gateway call.
C21_OneClosingCall ==
    [][/\ (interview_stage # 6 /\ interview_stage' = 6) =>
              Len(ClosingCalls(turn'.calls)) = 1
       /\ (interview_stage # 6 /\ interview_stage' # 6) =>
              ClosingCalls(turn'.calls) = <<>>
       /\ interview_stage = 6 => turn'.calls = <<>>]_vars

\* the positions of the welcome message in the log
Welcomes ==
    {i \in 1..Len(chat_history) :
        chat_history[i] = Msg("assistant", welcome_message)}

\* C22: a session starts at stage 0 with an empty log, empty candidate info,
\* an empty question list and cursor 0; nothing but the welcome step is taken
\* from there, and it appends the welcome message as an assistant message and
\* sets stage 1 with no user input and no gateway call; afterwards the
\* welcome message is in the log exactly once, as its first message.
C22_WelcomeOnceAndFirst ==
    /\ turn.op = "open" =>
           /\ interview_stage = 0
           /\ chat_history = <<>>
           /\ candidate_info = EmptyInfo
           /\ technical_questions = <<>>
           /\ current_question_index = 0
    /\ turn.op = "welcome" =>
           /\ interview_stage = 1
           /\ chat_history = <<Msg("assistant", welcome_message)>>
           /\ turn.input = <<>>
           /\ turn.calls = <<>>
           /\ inputs = 0
           /\ candidate_info = EmptyInfo
    /\ turn.op # "open" => (interview_stage >= 1 /\ Welcomes = {1})

\* the welcome has been followed by a whole interview and is still the one
\* welcome of the log
C22_Witness ==
    /\ interview_stage = 6
    /\ Len(chat_history) >= 10
    /\ Welcomes = {1}

\* C23: every step leaves the log it found as a prefix of the log it leaves:
\* no message is removed, reordered or rewritten, and the length never
\* decreases.
C23_LogAppendOnly ==
    [][/\ Len(chat_history') >= Len(chat_history)
       /\ SubSeq(chat_history', 1, Len(chat_history)) = chat_history]_vars

\* a step appended three messages (the answer, the evaluation's reply and the
\* closing reply) behind a log of at least ten
C23_Witness ==
    /\ turn.op = "send_answer"
    /\ Len(turn.calls) = 2
    /\ Len(chat_history) >= 13
    /\ chat_history[Len(chat_history) - 2] = Msg("user", turn.input)
    /\ chat_history[Len(chat_history) - 1].role = "assistant"
    /\ chat_history[Len(chat_history)].role = "assistant"

\* C24: a turn that waits for a provider call does not wait for ever: the
\* call ends (as a failure, after which the gateway goes on to the secondary
\* provider or the fallback value) and the turn completes.
C24_HungCallEnds == (waiting # Idle) ~> (waiting = Idle)

\* text sub occurs in text as a run of consecutive tokens
Contains(text, sub) ==
    \E i \in 0..(Len(text) - Len(sub)) : SubSeq(text, i + 1, i + Len(sub)) = sub

\* the instruction blocks that occur in a text
BlocksIn(text) == {s \in DOMAIN stage_prompts : Contains(text, stage_prompts[s])}

\* C25: for every stage, every candidate info and every provider
\* configuration the prompt of ai_bridge.get_system_prompt starts with the
\* fixed preamble, holds the line "- key: value" of every key of the
\* candidate info (tech_stack comma-joined), and holds the instruction block
\* of the stage and no other; for a stage without a block it holds none.
C25_PromptHoldsInfoAndBlock ==
    turn.op = "get_system_prompt" =>
        /\ Len(turn.value) >= Len(base_prompt)
        /\ SubSeq(turn.value, 1, Len(base_prompt)) = base_prompt
        /\ \A k \in DOMAIN candidate_info :
               Contains(turn.value,
                        <<"- ", k, ": ">>
                        \o (IF k = "tech_stack" THEN join(candidate_info[k])
                            ELSE IF k = "experience"
                            THEN <<ToString(candidate_info[k])>>
                            ELSE candidate_info[k])
                        \o <<NL>>)
        /\ BlocksIn(turn.value) =
               (IF interview_stage \in 1..6 THEN {interview_stage} ELSE {})

\* a gateway call in which no provider answered: none is configured, or
\* every provider consulted raised
NoAnswer(c) == \A i \in 1..Len(c.api) : c.api[i].raised

C28_PrimaryParseFailureReturned ==
    \A c \in Calls :
        (c.op = "evaluate" /\ has_openai /\ ~c.api[1].raised
            /\ ~IsJsonObject(strip(c.api[1].text))) =>
            /\ c.value = parse_fallback
            /\ c.consulted = <<"openai">>
            /\ ~c.raised

\* both providers are configured, OpenAI answered in prose, and Anthropic
\* was not asked
C28_Witness ==
    /\ has_openai /\ has_anthropic
    /\ \E c \in Calls :
           /\ c.op = "evaluate"
           /\ c.api = <<Replies(NotJson("openai"))>>
           /\ c.consulted = <<"openai">>
           /\ c.value = parse_fallback

\* C29: in every reachable state the fields collected match the stage: from
\* stage 1 on the log is non-empty, from 2 on name is set, from 3 on contact,
\* from 4 on experience and position, from 5 on a non-empty tech_stack; and
\* below stage 5 technical_questions is empty and the cursor is 0.
C29_FieldsMatchStage ==
    /\ interview_stage >= 1 => chat_history # <<>>
    /\ interview_stage >= 2 => "name" \in DOMAIN candidate_info
    /\ interview_stage >= 3 => "contact" \in DOMAIN candidate_info
    /\ interview_stage >= 4 =>
           {"experience", "position"} \subseteq DOMAIN candidate_info
    /\ interview_stage >= 5 =>
           /\ "tech_stack" \in DOMAIN candidate_info
           /\ candidate_info["tech_stack"] # <<>>
    /\ (technical_questions # <<>> \/ current_question_index # 0) =>
           interview_stage >= 5

\* the assessment is under way: five fields, five questions, two answered
C29_Witness ==
    /\ interview_stage = 5
    /\ DOMAIN candidate_info =
           {"name", "contact", "experience", "position", "tech_stack"}
    /\ Len(technical_questions) = 5
    /\ current_question_index = 2

\* C30: the generate_chat_response call of an input handled at stage 1 to 4
\* gets the log ending with the user's message, the stage the input was
\* submitted at, and the candidate info that holds the new field; the closing
\* call gets stage 6 and the log ending with the assistant message of the
\* evaluation.
C30_ChatCallOrdering ==
    [][/\ (Handled /\ interview_stage \in 1..4) =>
              /\ Len(CallsOf(turn'.calls, "chat")) = 1
              /\ CallsOf(turn'.calls, "chat")[1].args =
                     [history |-> Append(chat_history, Msg("user", turn'.input)),
                      stage |-> interview_stage,
                      info |-> candidate_info']
              /\ StageFields(interview_stage) \subseteq DOMAIN candidate_info'
              /\ interview_stage' = interview_stage + 1
       /\ (Handled /\ interview_stage = 5) =>
              \A i \in 1..Len(CallsOf(turn'.calls, "chat")) :
                  /\ interview_stage' = 6
                  /\ CallsOf(turn'.calls, "chat")[i].args.stage = 6
                  /\ CallsOf(turn'.calls, "chat")[i].args.history =
                         chat_history \o <<Appended[1], Appended[2]>>
                  /\ Appended[1] = Msg("user", turn'.input)
                  /\ Appended[2].role = "assistant"
                  /\ Appended[2].content =
                         CallsOf(turn'.calls, "evaluate")[1].value["response"]
                         \o <<" ">> \o
                         CallsOf(turn'.calls, "evaluate")[1].value["follow_up"]]_vars

\* the closing call was made with stage 6 and with a log whose last message
\* is the evaluation's reply to the last answer
C30_Witness ==
    /\ turn.op = "send_answer"
    /\ interview_stage = 6
    /\ Len(turn.calls) = 2
    /\ turn.calls[2].op = "chat"
    /\ turn.calls[2].args.stage = 6
    /\ turn.calls[2].args.history = SubSeq(chat_history, 1, Len(chat_history) - 1)
    /\ chat_history[Len(chat_history) - 1].content =
           turn.calls[1].value["response"] \o <<" ">> \o turn.calls[1].value["follow_up"]

=============================================================================
